---- MODULE Spec2Model ----
(***************************************************************************)
(* Model of the intro animation driver (LoaderCanvas, second component of  *)
(* src/src/components/HeroSection.jsx) and of its host page (App,          *)
(* src/unnamed/part_001).                                                  *)
(*                                                                         *)
(* One session is one run of the LoaderCanvas effect: the closure that     *)
(* owns start, completed, DPR, resize and draw.  The browser side is the   *)
(* clock, the list of pending animation-frame callbacks, the list of       *)
(* resize listeners and the queue of pending timers.  Times are in ms.     *)
(* App always passes a function as onComplete, so the timer's test         *)
(* 'onComplete &&' always passes.                                          *)
(* Real numbers (progress values, device pixel ratio) are fractions        *)
(* <<n, d>> with d > 0.                                                    *)
(***************************************************************************)
EXTENDS Integers, Sequences, FiniteSets, TLC

\* ---- bounds of the model ------------------------------------------------
\* effect runs of one mounted LoaderCanvas
MaxSessions == 2
\* instants at which the effect may run again: during the grid phase, and
\* when a session started at 0 can be in its grace delay
RestartTimes == {500, 3700}
\* performance.now() read by the effect may be ahead of the timestamp the
\* next frame is given by up to this much, so a first frame can see
\* elapsed < 0
FrameLag == 100
TickSteps == {100}
Viewports == {<<3, 2>>, <<5, 3>>}
DevicePixelRatios == {<<0, 1>>, <<3, 2>>, <<3, 1>>}
\* elapsed times and buffer sizes <<canvas.width, canvas.height>> (px) at
\* which a single frame is computed on its own
ProbeElapsed == {100 * i : i \in -2..40}
ProbeSurfaces == {<<1250, 2000>>, <<3000, 2500>>}

\* ---- program constants ----------------------------------------------------
tGrid == 1100
tScaffold == 900
tA == 1200
tHold == 500
total == tGrid + tScaffold + tA + tHold
Grace == 50
MaxDPR == 2

\* the latest session starts by 3700 + FrameLag and lasts total + Grace
MaxClock == 3700 + FrameLag + total + Grace + 100

Sessions == 1..MaxSessions

VARIABLES
    clock,            \* the frame timeline: the timestamp a frame gets now
    framed,           \* an animation frame has run at this timestamp
    viewport,         \* <<window.innerWidth, window.innerHeight>>
    devicePixelRatio, \* window.devicePixelRatio (<<0,1>> when absent or 0)
    canvas,           \* the canvas element: style and buffer dimensions
    done,             \* App state, as of the latest render
    mounted,          \* LoaderCanvas is in the tree
    hero,             \* opacity class of <main> as last rendered
    update,           \* a state update setDone(true) awaits its render
    nsess,            \* effect runs so far
    cur,              \* the effect run whose cleanup is registered, 0 if none
    session,          \* the closure of every effect run
    rafRef,           \* rafRef.current
    rafCallbacks,     \* pending requestAnimationFrame callbacks
    listeners,        \* resize listeners of window, in registration order
    timers,           \* pending setTimeout callbacks
    last              \* the code that ran in the latest step

vars == <<clock, framed, viewport, devicePixelRatio, canvas, done, mounted,
          hero, update, nsess, cur, session, rafRef, rafCallbacks, listeners,
          timers, last>>

\* ---- arithmetic on fractions ----------------------------------------------
RLeq(a, b) == a[1] * b[2] <= b[1] * a[2]
REq(a, b) == a[1] * b[2] = b[1] * a[2]
RMin(a, b) == IF RLeq(a, b) THEN a ELSE b
RMax(a, b) == IF RLeq(b, a) THEN a ELSE b
Zero == <<0, 1>>
One == <<1, 1>>

\* Math.floor(w * r) for an integer w >= 0 and a fraction r >= 0
FloorMul(w, r) == (w * r[1]) \div r[2]

clamp01_noLower(v) == RMin(One, v)
clamp01(v) == RMax(Zero, RMin(One, v))

\* the three phase progress values of a frame
pGridAt(elapsed) == clamp01(<<elapsed, tGrid>>)
\* (variant: the operands of the subtraction are swapped)
pScafAt_swapped(elapsed) == clamp01(<<tGrid - elapsed, tScaffold>>)
pScafAt(elapsed) == clamp01(<<elapsed - tGrid, tScaffold>>)
\* (variant: the scaffold phase is left out of the offset)
pAAt_noScaffold(elapsed) == clamp01(<<elapsed - tGrid, tA>>)
pAAt(elapsed) == clamp01(<<elapsed - tGrid - tScaffold, tA>>)

\* (variant: the cap of 2 is left out)
DPROf_uncapped(dpr) == IF dpr[1] = 0 THEN One ELSE dpr
\* const DPR = Math.min(2, window.devicePixelRatio || 1)
DPROf(dpr) == RMin(<<MaxDPR, 1>>, IF dpr[1] = 0 THEN One ELSE dpr)

\* function resize() of a session with the given DPR
resize(dpr, vp) ==
    [styleW |-> vp[1], styleH |-> vp[2],
     width |-> FloorMul(vp[1], dpr), height |-> FloorMul(vp[2], dpr)]

\* the canvas element as created: no inline style, default 300 x 150 buffer
InitCanvas == [styleW |-> 0, styleH |-> 0, width |-> 300, height |-> 150]

NoSession ==
    [canvas |-> FALSE, DPR |-> One, start |-> 0,
     completed |-> FALSE, calls |-> 0, cleaned |-> FALSE]

Idle == [op |-> "init", ran |-> {}, elapsed |-> 0,
         pGrid |-> Zero, pScaf |-> Zero, pA |-> Zero, W |-> 0, H |-> 0]

Ran(op, S) == [Idle EXCEPT !.op = op, !.ran = S]

\* ---- the browser's handles --------------------------------------------------
\* requestAnimationFrame returns a handle no live callback and no stored
\* reference carries; the handles are positive.
FreshRaf(used) == CHOOSE n \in 1..(Cardinality(used) + 1) : n \notin used

RemoveListener_forgotten(ls, s) == ls
RemoveListener(ls, s) == SelectSeq(ls, LAMBDA x : x # s)

Init ==
    /\ clock = 0
    /\ framed = FALSE
    /\ viewport \in Viewports
    /\ devicePixelRatio \in DevicePixelRatios
    /\ canvas = InitCanvas
    /\ done = FALSE
    /\ mounted = TRUE
    /\ hero = "opacity-0"
    /\ update = FALSE
    /\ nsess = 0
    /\ cur = 0
    /\ session = [s \in Sessions |-> NoSession]
    /\ rafRef = 0
    /\ rafCallbacks = {}
    /\ listeners = <<>>
    /\ timers = <<>>
    /\ last = Idle

\* ---- the effect of LoaderCanvas ---------------------------------------------
\* the cleanup returned by the effect run s
CleanedCallbacks_noCancel == rafCallbacks
CleanedCallbacks == {c \in rafCallbacks : c.id # rafRef}

CleanedSessions ==
    IF cur = 0 THEN session ELSE [session EXCEPT ![cur].cleaned = TRUE]

\* (variant: the surface check comes after the listener is registered)
EffectBody_lateCheck(s, avail, perfNow, cbs, ls, ss) ==
    LET dpr == DPROf(devicePixelRatio)
        h == FreshRaf({c.id : c \in cbs} \cup {rafRef})
    IN /\ listeners' = Append(ls, s)
       /\ IF ~avail
          THEN /\ session' = [ss EXCEPT ![s] = NoSession]
               /\ cur' = 0
               /\ rafCallbacks' = cbs
               /\ UNCHANGED <<canvas, rafRef>>
          ELSE /\ canvas' = resize(dpr, viewport)
               /\ session' = [ss EXCEPT ![s] =
                                 [canvas |-> TRUE, DPR |-> dpr,
                                  start |-> perfNow, completed |-> FALSE, calls |-> 0,
                                  cleaned |-> FALSE]]
               /\ rafRef' = h
               /\ rafCallbacks' = cbs \cup {[id |-> h, s |-> s]}
               /\ cur' = s

\* the effect body, run as session s after the previous run's cleanup (if
\* any) left the callbacks cbs, the listeners ls and the closures ss
EffectBody(s, avail, perfNow, cbs, ls, ss) ==
    IF ~avail
    THEN /\ session' = [ss EXCEPT ![s] = NoSession]
         /\ cur' = 0
         /\ rafCallbacks' = cbs
         /\ listeners' = ls
         /\ UNCHANGED <<canvas, rafRef>>
    ELSE LET dpr == DPROf(devicePixelRatio)
             h == FreshRaf({c.id : c \in cbs} \cup {rafRef})
         IN /\ canvas' = resize(dpr, viewport)
            /\ listeners' = Append(ls, s)
            /\ session' = [ss EXCEPT ![s] =
                              [canvas |-> TRUE, DPR |-> dpr,
                               start |-> perfNow, completed |-> FALSE, calls |-> 0,
                               cleaned |-> FALSE]]
            /\ rafRef' = h
            /\ rafCallbacks' = cbs \cup {[id |-> h, s |-> s]}
            /\ cur' = s

\* first run of the effect, after the mount
Activate(avail, lag) ==
    /\ mounted
    /\ nsess = 0
    /\ clock = 0
    /\ nsess' = 1
    /\ EffectBody(1, avail, clock + lag, rafCallbacks, listeners, session)
    /\ last' = Ran("effect", {1})
    /\ UNCHANGED <<clock, framed, viewport, devicePixelRatio, done, mounted, hero,
                   update, timers>>

\* (variant: the body runs again without the previous run's cleanup)
Reactivate_noCleanup(avail, lag) ==
    /\ mounted
    /\ nsess > 0
    /\ nsess < MaxSessions
    /\ clock \in RestartTimes
    /\ nsess' = nsess + 1
    /\ EffectBody(nsess + 1, avail, clock + lag, rafCallbacks, listeners, session)
    /\ last' = Ran("effect", {nsess + 1})
    /\ UNCHANGED <<clock, framed, viewport, devicePixelRatio, done, mounted, hero,
                   update, timers>>

\* the effect runs again because onComplete changed identity: the previous
\* run's cleanup, then the body
Reactivate(avail, lag) ==
    /\ mounted
    /\ nsess > 0
    /\ nsess < MaxSessions
    /\ clock \in RestartTimes
    /\ nsess' = nsess + 1
    /\ IF cur = 0
       THEN EffectBody(nsess + 1, avail, clock + lag,
                       rafCallbacks, listeners, session)
       ELSE EffectBody(nsess + 1, avail, clock + lag, CleanedCallbacks,
                       RemoveListener(listeners, cur), CleanedSessions)
    /\ last' = Ran("effect", {nsess + 1})
    /\ UNCHANGED <<clock, framed, viewport, devicePixelRatio, done, mounted, hero,
                   update, timers>>

\* LoaderCanvas leaves the tree: the cleanup of the current run, if any
Teardown ==
    /\ mounted' = FALSE
    /\ cur' = 0
    /\ session' = CleanedSessions
    /\ rafCallbacks' = IF cur = 0 THEN rafCallbacks ELSE CleanedCallbacks
    /\ listeners' = IF cur = 0 THEN listeners ELSE RemoveListener(listeners, cur)
    /\ last' = Ran("cleanup", IF cur = 0 THEN {} ELSE {cur})
    /\ UNCHANGED <<clock, framed, viewport, devicePixelRatio, canvas, nsess,
                   rafRef, timers>>

\* a host other than App removes the component at a moment of its choice
Unmount ==
    /\ mounted
    /\ nsess > 0
    /\ Teardown
    /\ UNCHANGED <<done, hero, update>>

\* (variant: the loader is rendered whatever done is)
AppRender_keepsLoader ==
    /\ update
    /\ update' = FALSE
    /\ done' = TRUE
    /\ hero' = "opacity-100"
    /\ last' = Ran("render", {})
    /\ UNCHANGED <<clock, framed, viewport, devicePixelRatio, canvas, mounted,
                   nsess, cur, session, rafRef, rafCallbacks, listeners, timers>>

\* App renders with the queued state, done = true:
\* {!done && <LoaderCanvas/>} drops the loader and <main> gets opacity-100
AppRender ==
    /\ update
    /\ update' = FALSE
    /\ done' = TRUE
    /\ Teardown
    /\ hero' = IF done' THEN "opacity-100" ELSE "opacity-0"

\* ---- one animation frame: draw(now) of the session that requested it ---------
\* the parts of a frame: what it records, and how it ends given whether it
\* fires the completion, the new value of completed and whether it goes on
DrawEnd(c, now, fire, completedNow, goOn) ==
    LET s == c.s
        elapsed == now - session[s].start
        rest == rafCallbacks \ {c}
        h == FreshRaf({x.id : x \in rest} \cup {rafRef})
    IN /\ last' = [op |-> "draw", ran |-> {s}, elapsed |-> elapsed,
                   pGrid |-> pGridAt(elapsed), pScaf |-> pScafAt(elapsed),
                   pA |-> pAAt(elapsed), W |-> canvas.width, H |-> canvas.height]
       /\ session' = [session EXCEPT ![s].completed = completedNow]
       /\ timers' = IF fire
                    THEN Append(timers, [s |-> s, due |-> clock + Grace])
                    ELSE timers
       /\ IF goOn
          THEN /\ rafRef' = h
               /\ rafCallbacks' = rest \cup {[id |-> h, s |-> s]}
          ELSE /\ rafRef' = rafRef
               /\ rafCallbacks' = rest

\* (variant: completed is never set)
draw_flagNotSet(c, now) ==
    LET fire == now - session[c.s].start >= total /\ ~session[c.s].completed
    IN DrawEnd(c, now, fire, session[c.s].completed, ~session[c.s].completed)

\* (variant: the next frame is requested whatever completed is)
draw_alwaysReschedule(c, now) ==
    LET fire == now - session[c.s].start >= total /\ ~session[c.s].completed
    IN DrawEnd(c, now, fire, session[c.s].completed \/ fire, TRUE)

\* (variant: the next frame is never requested)
draw_noReschedule(c, now) ==
    LET fire == now - session[c.s].start >= total /\ ~session[c.s].completed
    IN DrawEnd(c, now, fire, session[c.s].completed \/ fire, FALSE)

\* (variant: the hold phase is left out of the completion test)
draw_noHold(c, now) ==
    LET fire == now - session[c.s].start >= total - tHold /\ ~session[c.s].completed
    IN DrawEnd(c, now, fire, session[c.s].completed \/ fire,
               ~(session[c.s].completed \/ fire))

draw(c, now) ==
    LET s == c.s
        elapsed == now - session[s].start
        fire == elapsed >= total /\ ~session[s].completed
        completedNow == session[s].completed \/ fire
    IN DrawEnd(c, now, fire, completedNow, ~completedNow)

Frame(c) ==
    /\ c \in rafCallbacks
    /\ ~framed
    /\ framed' = TRUE
    /\ draw(c, clock)
    /\ UNCHANGED <<clock, viewport, devicePixelRatio, canvas, done, mounted,
                   hero, update, nsess, cur, listeners>>

\* ---- the grace timer: () => onComplete && onComplete() -----------------------
\* onComplete is App's () => setDone(true): it queues the update, unless
\* the state is true already
Timeout ==
    /\ timers # <<>>
    /\ clock >= Head(timers).due
    /\ LET s == Head(timers).s
       IN /\ timers' = Tail(timers)
          /\ last' = Ran("timeout", {s})
          /\ session' = [session EXCEPT ![s].calls = @ + 1]
          /\ update' = (update \/ ~done)
    /\ UNCHANGED <<clock, framed, viewport, devicePixelRatio, canvas, done,
                   mounted, hero, nsess, cur, rafRef, rafCallbacks, listeners>>

\* ---- the window is resized: every registered resize() runs -------------------
\* (variant: resize() also restarts the timeline)
ResizeEvent_restart(vp) ==
    /\ vp # viewport
    /\ viewport' = vp
    /\ canvas' = IF listeners = <<>>
                 THEN canvas
                 ELSE resize(session[listeners[Len(listeners)]].DPR, vp)
    /\ session' = [s \in Sessions |->
                      IF \E i \in 1..Len(listeners) : listeners[i] = s
                      THEN [session[s] EXCEPT !.start = clock]
                      ELSE session[s]]
    /\ last' = Ran("resize", {listeners[i] : i \in 1..Len(listeners)})
    /\ UNCHANGED <<clock, framed, devicePixelRatio, done, mounted, hero, update,
                   nsess, cur, rafRef, rafCallbacks, listeners, timers>>

ResizeEvent(vp) ==
    /\ vp # viewport
    /\ viewport' = vp
    /\ canvas' = IF listeners = <<>>
                 THEN canvas
                 ELSE resize(session[listeners[Len(listeners)]].DPR, vp)
    /\ last' = Ran("resize", {listeners[i] : i \in 1..Len(listeners)})
    /\ UNCHANGED <<clock, framed, devicePixelRatio, done, mounted, hero, update,
                   nsess, cur, session, rafRef, rafCallbacks, listeners, timers>>

\* ---- time passes -------------------------------------------------------------
\* Time is followed while the component is mounted or a frame or a timer
\* is pending; after that nothing of the program is scheduled.
Tick(d) ==
    /\ \/ clock + d <= MaxClock
       \/ timers # <<>> /\ clock < Head(timers).due
    /\ mounted \/ rafCallbacks # {} \/ timers # <<>>
    /\ clock' = clock + d
    /\ framed' = FALSE
    /\ last' = Ran("tick", {})
    /\ UNCHANGED <<viewport, devicePixelRatio, canvas, done, mounted, hero, update,
                   nsess, cur, session, rafRef, rafCallbacks, listeners, timers>>

Next ==
    \/ \E avail \in BOOLEAN, lag \in {0, FrameLag} :
          Activate(avail, lag)
    \/ \E avail \in BOOLEAN, lag \in {0, FrameLag} :
          Reactivate(avail, lag)
    \/ Unmount
    \/ AppRender
    \/ \E c \in rafCallbacks : Frame(c)
    \/ Timeout
    \/ \E vp \in Viewports : ResizeEvent(vp)
    \/ \E d \in TickSteps : Tick(d)

Spec == Init /\ [][Next]_vars

\* ---- the page as App runs it -------------------------------------------------
\* App renders again only when done changes, so the loader's effect runs
\* once and the loader leaves the tree only in the render that follows
\* setDone(true).  React performs that render.
AppNext ==
    \/ \E avail \in BOOLEAN, lag \in {0, FrameLag} :
          Activate(avail, lag)
    \/ AppRender
    \/ \E c \in rafCallbacks : Frame(c)
    \/ Timeout
    \/ \E vp \in Viewports : ResizeEvent(vp)
    \/ \E d \in TickSteps : Tick(d)

AppSpec ==
    /\ Init
    /\ [][AppNext]_vars
    /\ WF_vars(\E d \in TickSteps : Tick(d))
    /\ WF_vars(\E c \in rafCallbacks : Frame(c))
    /\ WF_vars(Timeout)
    /\ WF_vars(AppRender)

\* ---- the letterform of a frame -------------------------------------------------
\* Lengths and coordinates are in tenths of a pixel; Math.hypot is taken to
\* the tenth of a pixel below.  Fractions are kept in lowest terms.
RECURSIVE GCD(_, _)
GCD(a, b) == IF b = 0 THEN a ELSE GCD(b, a % b)
Abs(n) == IF n < 0 THEN -n ELSE n
Norm(r) == LET g == GCD(Abs(r[1]), r[2]) IN <<r[1] \div g, r[2] \div g>>
RMul(a, b) ==
    LET g == GCD(Abs(a[1]), b[2])
        h == GCD(Abs(b[1]), a[2])
    IN Norm(<<(a[1] \div g) * (b[1] \div h), (a[2] \div h) * (b[2] \div g)>>)
RAdd(a, b) ==
    LET g == GCD(a[2], b[2])
    IN Norm(<<a[1] * (b[2] \div g) + b[1] * (a[2] \div g), (a[2] \div g) * b[2]>>)
RSub(a, b) == RAdd(a, <<-b[1], b[2]>>)
Whole(n) == <<n, 1>>

RECURSIVE ISqrtBetween(_, _, _)
ISqrtBetween(lo, hi, x) ==
    IF hi - lo <= 1 THEN lo
    ELSE LET mid == (lo + hi) \div 2
         IN IF mid * mid <= x THEN ISqrtBetween(mid, hi, x)
            ELSE ISqrtBetween(lo, mid, x)
Hypot(dx, dy) == ISqrtBetween(0, 46341, dx * dx + dy * dy)

\* lerp(a, b, t) of a coordinate, to the tenth of a pixel below
lerp(a, b, t) == a + ((b - a) * t[1]) \div t[2]

\* (variant: 1 - Math.pow(-2*t + 2, 3), the division by 2 left out)
easeInOutCubic_noHalf(t) ==
    IF 2 * t[1] < t[2]
    THEN Norm(<<4 * t[1] * t[1] * t[1], t[2] * t[2] * t[2]>>)
    ELSE LET u == 2 * t[2] - 2 * t[1]
         IN Norm(<<t[2] * t[2] * t[2] - u * u * u, t[2] * t[2] * t[2]>>)

\* t < 0.5 ? 4*t*t*t : 1 - Math.pow(-2*t + 2, 3) / 2, for t in lowest terms
easeInOutCubic(t) ==
    IF 2 * t[1] < t[2]
    THEN Norm(<<4 * t[1] * t[1] * t[1], t[2] * t[2] * t[2]>>)
    ELSE LET u == 2 * t[2] - 2 * t[1]
         IN Norm(<<2 * t[2] * t[2] * t[2] - u * u * u, 2 * t[2] * t[2] * t[2]>>)

\* (variant: the remaining length is returned without Math.max(0, ...))
drawSegment_noFloor(a, b, visibleLen) ==
    LET segLen == Hypot(b[1] - a[1], b[2] - a[2])
        t == clamp01(<<visibleLen[1], visibleLen[2] * segLen>>)
    IN [len |-> segLen, t |-> t, drawn |-> RMul(t, Whole(segLen)),
        rest |-> RSub(visibleLen, Whole(segLen))]

\* drawSegment(a, b, visibleLen): the stroke runs from a to lerp(a, b, t),
\* a length of t * segLen; the length left for the next segment is returned
drawSegment(a, b, visibleLen) ==
    LET segLen == Hypot(b[1] - a[1], b[2] - a[2])
        t == clamp01(<<visibleLen[1], visibleLen[2] * segLen>>)
    IN [len |-> segLen, t |-> t, drawn |-> RMul(t, Whole(segLen)),
        rest |-> RMax(Zero, RSub(visibleLen, Whole(segLen)))]

\* the letterform part of draw, for a W x H buffer (px)
Letterform(W, H, dpr, pA) ==
    LET cx == 5 * W
        cy == 5 * H
        size == ((IF W < H THEN W ELSE H) * 28) \div 10
        halfBase == (size * 6) \div 10
        height == size
        top == <<cx, cy - (height * 6) \div 10>>
        left == <<cx - halfBase, cy + (height * 4) \div 10>>
        right == <<cx + halfBase, cy + (height * 4) \div 10>>
        inset == (size * 18) \div 100
        lenLeft == Hypot(top[1] - left[1], top[2] - left[2])
        lenRight == Hypot(right[1] - top[1], right[2] - top[2])
        barY == lerp(left[2], top[2], <<55, 100>>)
        barLeft == <<lerp(left[1], top[1], <<32, 100>>), barY>>
        barRight == <<lerp(top[1], right[1], <<32, 100>>), barY>>
        lenBar == Hypot(barRight[1] - barLeft[1], barRight[2] - barLeft[2])
        totalLen == lenLeft + lenRight + lenBar
        prog == easeInOutCubic(Norm(pA))
        drawLen == RMul(Whole(totalLen), prog)
        o1 == drawSegment(left, top, drawLen)
        o2 == drawSegment(top, right, o1.rest)
        o3 == drawSegment(barLeft, barRight, o2.rest)
        lineW == RMul(IF RLeq(Whole(2), dpr) THEN Whole(14) ELSE Whole(9), dpr)
        leftIn == <<lerp(left[1], top[1], <<inset, lenLeft>>),
                    lerp(left[2], top[2], <<inset, lenLeft>>)>>
        rightIn == <<lerp(right[1], top[1], <<inset, lenRight>>),
                     lerp(right[2], top[2], <<inset, lenRight>>)>>
        topIn == <<top[1], top[2] + inset>>
        barInset == (2 * lineW[1]) \div lineW[2]
        barLeftIn == <<barLeft[1] + barInset, barY + barInset \div 10>>
        barRightIn == <<barRight[1] - barInset, barY + barInset \div 10>>
        i1 == drawSegment(leftIn, topIn, RMul(drawLen, <<92, 100>>))
        i2 == drawSegment(topIn, rightIn, i1.rest)
        i3 == drawSegment(barLeftIn, barRightIn, i2.rest)
    IN [totalLen |-> totalLen, prog |-> prog, drawLen |-> drawLen,
        outer |-> <<o1, o2, o3>>, inner |-> <<i1, i2, i3>>]

\* ---- one frame on its own ------------------------------------------------------
\* draw(now) as a function of elapsed, the buffer size and DPR: what it
\* computes before it paints
DrawProbe(elapsed, surf, dpr) ==
    /\ last' = [op |-> "probe", ran |-> {}, elapsed |-> elapsed,
                pGrid |-> pGridAt(elapsed), pScaf |-> pScafAt(elapsed),
                pA |-> pAAt(elapsed), W |-> surf[1], H |-> surf[2], DPR |-> dpr,
                A |-> Letterform(surf[1], surf[2], dpr, pAAt(elapsed))]
    /\ UNCHANGED <<clock, framed, viewport, devicePixelRatio, canvas, done,
                   mounted, hero, update, nsess, cur, session, rafRef, rafCallbacks,
                   listeners, timers>>

ProbeNext ==
    \E elapsed \in ProbeElapsed, surf \in ProbeSurfaces :
        DrawProbe(elapsed, surf, DPROf(devicePixelRatio))

\* frames computed one after another at any elapsed times and sizes, with the
\* page's DPR
ProbeSpec == Init /\ [][ProbeNext]_vars

\* The browser delivers every requested frame and every timer, and time
\* passes.
LiveSpec ==
    /\ Init
    /\ [][Next]_vars
    /\ WF_vars(\E d \in TickSteps : Tick(d))
    /\ WF_vars(\E c \in rafCallbacks : Frame(c))
    /\ WF_vars(Timeout)

\* ---- vocabulary of the properties ---------------------------------------------
Activated == 1..nsess
Registered(s) == \E i \in 1..Len(listeners) : listeners[i] = s
FramePending(s) == \E c \in rafCallbacks : c.s = s
TimerPending(s) == \E i \in 1..Len(timers) : timers[i].s = s
Handler == {"draw", "resize", "timeout"}
\* the step is the frame callback of session s
DrawStep(s) == ~framed /\ framed' /\ last'.op = "draw" /\ s \in last'.ran
InUnit(p) == RLeq(Zero, p) /\ RLeq(p, One)

\* C1: within one activation of the driver the completion callback is
\* invoked at most once, whatever frames, resize events and timers occur.
C1_AtMostOnce == \A s \in Sessions : session[s].calls <= 1

C1_Witness ==
    \E s \in Sessions :
        /\ session[s].calls = 1
        /\ session[s].completed
        /\ clock > session[s].start + total + Grace

\* C2: a session with an available canvas that is never deactivated
\* eventually has its completion callback invoked, when frames and timers
\* are delivered.
C2_EventuallyCompletes ==
    \A s \in Sessions :
        (cur = s /\ session[s].canvas)
            ~> (session[s].calls >= 1 \/ session[s].cleaned)

C2_Witness ==
    \E s \in Sessions :
        session[s].canvas /\ ~session[s].cleaned /\ session[s].calls >= 1

\* C3: after the cleanup of a session has run, none of its callbacks runs:
\* no frame callback, no resize handler, no completion callback.
C3_NoCallbackAfterCleanup ==
    last.op \in Handler => \A s \in last.ran : ~session[s].cleaned

\* C4: a session deactivated before any frame with elapsed >= total ran
\* never invokes the completion callback: it has no callback invocation, no
\* timer and no frame pending, so completed cannot be set any more.
C4_NoCallbackAfterEarlyCleanup ==
    \A s \in Sessions :
        (session[s].cleaned /\ ~session[s].completed) =>
            /\ session[s].calls = 0
            /\ ~TimerPending(s)
            /\ ~FramePending(s)

C4_Witness ==
    \E s \in Sessions :
        /\ session[s].cleaned
        /\ ~session[s].completed
        /\ clock > session[s].start + 3700 + Grace

\* C5: the completion is scheduled by the first frame whose elapsed time is
\* >= 3700 ms and by no earlier frame, and the callback is not invoked
\* before such a frame has run and the grace delay has passed.
C5_CompletionByElapsedTime ==
    /\ last.op = "draw" =>
           \A s \in last.ran : session[s].completed <=> last.elapsed >= 3700
    /\ \A s \in Sessions :
           /\ session[s].completed => clock >= session[s].start + 3700
           /\ session[s].calls >= 1 =>
                  session[s].completed /\ clock >= session[s].start + 3700 + 50
           /\ \A i \in 1..Len(timers) :
                  timers[i].s = s =>
                      /\ session[s].completed
                      /\ timers[i].due >= session[s].start + 3700 + 50

C5_Witness ==
    /\ last.op = "draw"
    /\ last.elapsed >= 3700
    /\ \E s \in last.ran : session[s].completed /\ TimerPending(s)

\* C6: an effect run that finds no canvas does nothing: no listener, no
\* frame, no timer, no drawing, no completion callback.
C6_NoCanvasNoWork ==
    \A s \in Sessions :
        ~session[s].canvas =>
            /\ ~Registered(s)
            /\ ~FramePending(s)
            /\ ~TimerPending(s)
            /\ ~session[s].completed
            /\ session[s].calls = 0
            /\ last.op \in Handler => s \notin last.ran
            /\ (last.op = "effect" /\ s \in last.ran) =>
                   cur = 0 /\ (nsess = 1 => canvas = InitCanvas /\ rafRef = 0)

C6_Witness ==
    /\ nsess = 1
    /\ ~session[1].canvas
    /\ clock > 3700 + Grace
    /\ mounted

\* C7: once completed is set, the session has no frame pending and draw
\* does not run for it again.
C7_NoFrameAfterCompleted ==
    [][\A s \in Sessions :
           session[s].completed => ~FramePending(s)' /\ ~DrawStep(s)]_vars

C7_Witness ==
    \E s \in Sessions :
        /\ session[s].completed
        /\ ~session[s].cleaned
        /\ clock > session[s].start + total + 200

\* C8 (as stated): in every state after the completion callback has fired,
\* no resize listener of that session is registered.
C8_ListenerGoneAfterCallback ==
    \A s \in Sessions : session[s].calls >= 1 => ~Registered(s)

\* C8 (amended): after the completion callback has fired no frame of the
\* session is pending, and its resize listener is registered exactly until
\* the effect cleanup runs.
C8_ListenerGoneAfterCleanup ==
    \A s \in Sessions :
        session[s].calls >= 1 =>
            /\ ~FramePending(s)
            /\ Registered(s) <=> ~session[s].cleaned

C8_Witness ==
    \E s \in Sessions :
        session[s].calls >= 1 /\ session[s].cleaned /\ ~mounted /\ done

\* C9: a resize event changes the surface geometry only: the start
\* instant, the completed flag, the pending frame and its handle, and the
\* timers stay as they were.
C9_ResizeKeepsTimeline ==
    [][viewport' # viewport =>
           /\ session' = session
           /\ rafRef' = rafRef
           /\ rafCallbacks' = rafCallbacks
           /\ timers' = timers
           /\ clock' = clock]_vars

C9_Witness ==
    /\ last.op = "resize"
    /\ \E s \in last.ran :
           /\ FramePending(s)
           /\ clock > session[s].start
           /\ canvas = resize(session[s].DPR, viewport)

\* C10: the three phase progress values of every frame lie in [0,1]; they
\* are all 0 when elapsed < 0 and all exactly 1 when elapsed >= 3700.
C10_ProgressClamped ==
    last.op = "draw" =>
        /\ InUnit(last.pGrid) /\ InUnit(last.pScaf) /\ InUnit(last.pA)
        /\ last.elapsed < 0 =>
               REq(last.pGrid, Zero) /\ REq(last.pScaf, Zero) /\ REq(last.pA, Zero)
        /\ last.elapsed >= 3700 =>
               REq(last.pGrid, One) /\ REq(last.pScaf, One) /\ REq(last.pA, One)

C10_Witness == last.op = "draw" /\ last.elapsed < 0

\* C11: each phase's progress is monotonically non-decreasing in elapsed
\* time: of two frames, the one with the larger elapsed has pGrid, pScaf
\* and pA at least as large.
C11_ProgressMonotone ==
    [][(last.op = "probe" /\ last'.op = "probe"
            /\ last.elapsed <= last'.elapsed) =>
           /\ RLeq(last.pGrid, last'.pGrid)
           /\ RLeq(last.pScaf, last'.pScaf)
           /\ RLeq(last.pA, last'.pA)]_vars

C11_Witness ==
    /\ last.op = "probe"
    /\ last.elapsed = 1500
    /\ REq(last.pGrid, One)
    /\ ~REq(last.pScaf, Zero) /\ ~REq(last.pScaf, One)

\* C12: the phases are sequential with boundaries at 1100, 2000, 3200 and
\* 3700 ms: a phase has progress > 0 only if every earlier phase has
\* progress 1; grid is 0 at 0; grid is 1 and scaffold 0 at 1100; scaffold
\* is 1 and letterform 0 at 2000; letterform is 1 at 3200; completed is
\* not set by a frame with elapsed < 3700.
C12_PhasesSequential ==
    last.op = "draw" =>
        /\ ~REq(last.pScaf, Zero) => REq(last.pGrid, One)
        /\ ~REq(last.pA, Zero) => REq(last.pGrid, One) /\ REq(last.pScaf, One)
        /\ last.elapsed = 0 => REq(last.pGrid, Zero)
        /\ last.elapsed = 1100 => REq(last.pGrid, One) /\ REq(last.pScaf, Zero)
        /\ last.elapsed = 2000 => REq(last.pScaf, One) /\ REq(last.pA, Zero)
        /\ last.elapsed = 3200 => REq(last.pA, One)
        /\ \A s \in last.ran : session[s].completed => last.elapsed >= 3700

C12_Witness ==
    /\ last.op = "draw"
    /\ last.elapsed = 2000
    /\ REq(last.pScaf, One)

\* C13: App shows the loader exactly until the completion signal is
\* rendered: the loader is mounted iff done is false and <main> is opaque
\* iff done is true; done changes only from false to true, by the update
\* the completion callback queues; that render unmounts the loader, whose
\* cleanup has then run, and the effect never runs again.
C13_LoaderUntilDone ==
    /\ [](mounted <=> ~done)
    /\ [](hero = "opacity-100" <=> done)
    /\ [](done => cur = 0 /\ \A s \in Activated :
                                 session[s].canvas => session[s].cleaned)
    /\ [][done' # done => ~done /\ done' /\ update]_vars
    /\ [][(update' /\ ~update) => last'.op = "timeout"]_vars
    /\ [][done => nsess' = nsess /\ ~mounted']_vars
    /\ [][nsess' # nsess => nsess = 0]_vars
    /\ ((\E s \in Sessions : session[s].calls >= 1) ~> done)

C13_Witness ==
    /\ done
    /\ ~mounted
    /\ hero = "opacity-100"
    /\ session[1].calls = 1
    /\ session[1].cleaned

\* ---- comparing lengths -----------------------------------------------------------
\* a <= b for fractions with positive denominators, without cross products
RECURSIVE RLe(_, _)
RLe(a, b) ==
    LET qa == a[1] \div a[2]
        qb == b[1] \div b[2]
        ra == a[1] % a[2]
        rb == b[1] % b[2]
    IN IF qa # qb THEN qa < qb
       ELSE IF ra = 0 THEN TRUE
       ELSE IF rb = 0 THEN FALSE
       ELSE RLe(<<b[2], rb>>, <<a[2], ra>>)
RClamp(x, lo, hi) == IF RLe(x, lo) THEN lo ELSE IF RLe(hi, x) THEN hi ELSE x
Probed == last.op = "probe"
LenBefore(segs, k) == IF k = 1 THEN 0 ELSE IF k = 2 THEN segs[1].len
                      ELSE segs[1].len + segs[2].len
DrawnSum(segs) == RAdd(RAdd(segs[1].drawn, segs[2].drawn), segs[3].drawn)
PathLen(segs) == segs[1].len + segs[2].len + segs[3].len
FullyDrawn(segs) == \A k \in 1..3 : segs[k].drawn = Whole(segs[k].len)
SameSurface == last.W = last'.W /\ last.H = last'.H /\ last.DPR = last'.DPR

\* C14: the three outer segments are revealed in the order left stroke, right
\* stroke, crossbar by cumulative length: for a visible length L the drawn
\* length of segment k is clamp(L - lengths of the earlier segments, 0,
\* length of k); so a later segment is drawn only when every earlier one is
\* fully drawn, the remaining length drawSegment returns is never negative,
\* and the drawn lengths sum to L.
C14_SegmentsInOrder ==
    Probed =>
        LET o == last.A.outer
            L == last.A.drawLen
        IN /\ RLe(Zero, L) /\ RLe(L, Whole(last.A.totalLen))
           /\ \A k \in 1..3 :
                 /\ o[k].drawn = Norm(RClamp(RSub(L, Whole(LenBefore(o, k))),
                                             Zero, Whole(o[k].len)))
                 /\ RLe(Zero, o[k].rest)
                 /\ o[k].drawn[1] > 0 =>
                        \A j \in 1..(k - 1) : o[j].drawn = Whole(o[j].len)
           /\ DrawnSum(o) = L

C14_Witness ==
    /\ Probed
    /\ last.A.outer[1].drawn = Whole(last.A.outer[1].len)
    /\ last.A.outer[2].drawn[1] > 0
    /\ last.A.outer[2].drawn # Whole(last.A.outer[2].len)
    /\ last.A.outer[3].drawn = Zero

\* C15: the visible stroke length drawLen = totalLen x eased progress never
\* decreases as the letterform progress grows, is 0 at progress 0, and at
\* progress 1 equals lenLeft + lenRight + lenBar, all three outer segments
\* being fully drawn.
C15_VisibleLengthMonotone ==
    /\ [][(Probed /\ Probed' /\ SameSurface /\ RLeq(last.pA, last'.pA))
              => RLe(last.A.drawLen, last'.A.drawLen)]_vars
    /\ [](Probed /\ REq(last.pA, Zero) => last.A.drawLen = Zero)
    /\ [](Probed /\ REq(last.pA, One) =>
              /\ last.A.drawLen = Whole(last.A.totalLen)
              /\ last.A.totalLen = PathLen(last.A.outer)
              /\ FullyDrawn(last.A.outer))

C15_Witness ==
    /\ Probed
    /\ REq(last.pA, One)
    /\ last.A.drawLen = Whole(PathLen(last.A.outer))
    /\ last.A.outer[3].t = One

\* C16: the inner (inset) copy trails the outer copy: the drawn fraction of the
\* inner copy's own path is at most the drawn fraction of the outer copy's
\* path, and the inner copy is not fully drawn before the outer copy is.
C16_InnerTrails ==
    Probed =>
        LET o == last.A.outer
            i == last.A.inner
        IN /\ RLe(RMul(DrawnSum(i), <<1, PathLen(i)>>),
                  RMul(DrawnSum(o), <<1, PathLen(o)>>))
           /\ FullyDrawn(i) => FullyDrawn(o)

\* k = floor(w x r)
IsFloorOf(k, w, r) == k * r[2] <= w * r[1] /\ w * r[1] < (k + 1) * r[2]
\* r = min(2, devicePixelRatio or 1)
IsCappedRatio(r) ==
    LET d == IF devicePixelRatio[1] = 0 THEN <<1, 1>> ELSE devicePixelRatio
    IN IF RLeq(d, <<2, 1>>) THEN REq(r, d) ELSE REq(r, <<2, 1>>)
SizedFor(s) ==
    /\ canvas.styleW = viewport[1]
    /\ canvas.styleH = viewport[2]
    /\ IsFloorOf(canvas.width, viewport[1], session[s].DPR)
    /\ IsFloorOf(canvas.height, viewport[2], session[s].DPR)
    /\ canvas.width <= 2 * viewport[1]
    /\ canvas.height <= 2 * viewport[2]

\* C17: after every resize event (and after the initial sizing) the display
\* size of the surface is the viewport's and its buffer is floor(width x DPR)
\* by floor(height x DPR) with DPR = min(2, devicePixelRatio or 1), so never
\* more than twice the viewport; and every frame takes its geometry from the
\* dimensions the latest resize set.
C17_SurfaceFollowsViewport ==
    /\ \A s \in Activated : session[s].canvas => IsCappedRatio(session[s].DPR)
    /\ \A s \in Sessions : Registered(s) => SizedFor(s)
    /\ last.op = "resize" => \A s \in last.ran : SizedFor(s)
    /\ last.op = "draw" =>
           \A s \in last.ran :
               /\ SizedFor(s)
               /\ last.W = canvas.width
               /\ last.H = canvas.height

C17_Witness ==
    /\ last.op = "resize"
    /\ last.ran = {1}
    /\ viewport = <<5, 3>>
    /\ devicePixelRatio = <<3, 2>>
    /\ canvas = [styleW |-> 5, styleH |-> 3, width |-> 7, height |-> 4]

\* C18: for one mounted driver, across activation, re-activation, completion
\* and unmount, at most one frame callback is pending and at most one resize
\* listener is registered; a re-activation cancels the previous session's
\* pending frame and removes its listener before the new session registers
\* its own.
C18_OneFrameOneListener ==
    /\ [](/\ Cardinality(rafCallbacks) <= 1
          /\ Len(listeners) <= 1
          /\ \A c \in rafCallbacks : c.s = cur
          /\ \A s \in Sessions : Registered(s) => s = cur)
    /\ [][(nsess > 0 /\ nsess' = nsess + 1) =>
              \A s \in 1..nsess :
                  /\ ~(\E c \in rafCallbacks' : c.s = s)
                  /\ ~(\E i \in 1..Len(listeners') : listeners'[i] = s)]_vars

C18_Witness ==
    /\ nsess = 2
    /\ session[1].canvas
    /\ session[1].cleaned
    /\ ~session[1].completed
    /\ rafCallbacks = {[id |-> rafRef, s |-> 2]}
    /\ listeners = <<2>>
    /\ last.op = "effect"

\* C19: over the whole life of one mounted driver, re-activations at any
\* moment included (also during the grace delay of a session that has set
\* completed), the completion callback is invoked at most once in total, and
\* a session that was torn down never delivers its completion.
C19_OneCallbackOverLifetime ==
    /\ \A s \in Sessions : session[s].calls <= 1
    /\ Cardinality({s \in Sessions : session[s].calls >= 1}) <= 1
    /\ last.op = "timeout" => \A s \in last.ran : ~session[s].cleaned

====
